---- MODULE Spec2Model ----
(***************************************************************************)
(* A model of @alloc/resolve.exports: resolveExports(pkg, entry, options,  *)
(* inlineConditions) and the compiled-pattern cache it keeps per export    *)
(* map.  Strings are sequences of one-character strings, so that pattern   *)
(* compilation, matching and slot substitution are computed character by   *)
(* character, as the code does.                                            *)
(***************************************************************************)
EXTENDS Integers, Sequences, FiniteSets, TLC

VARIABLES pkg, pathMatchersCache, call, callers, arrays, sharedArray

vars == <<pkg, pathMatchersCache, call, callers, arrays, sharedArray>>

\* the state of calls that run side by side (see the last state machine)
raceVars == <<callers, arrays, sharedArray>>

-----------------------------------------------------------------------------
(* JSON values of a package descriptor.  Every value is a record with the  *)
(* same fields: t is the JavaScript type, s the characters of a string,    *)
(* items the members of a list (k unused) or the own properties of an      *)
(* object in the order Object.keys / for-in enumerates them.               *)

JUndefined == [t |-> "undefined", s |-> <<>>, items |-> <<>>]

JNull == [t |-> "null", s |-> <<>>, items |-> <<>>]

JStr(chars) == [t |-> "string", s |-> chars, items |-> <<>>]

JList(values) ==
  [t |-> "array", s |-> <<>>,
   items |-> [i \in 1..Len(values) |-> [k |-> <<>>, v |-> values[i]]]]

JObj(props) == [t |-> "object", s |-> <<>>, items |-> props]

Prop(key, value) == [k |-> key, v |-> value]

\* Object.keys(obj)
ObjectKeys(obj) == [i \in 1..Len(obj.items) |-> obj.items[i].k]

\* obj[key] for an own property of obj
GetProp(obj, key) ==
  LET i == CHOOSE j \in 1..Len(obj.items) : obj.items[j].k = key
  IN obj.items[i].v

-----------------------------------------------------------------------------
(* Results of the resolvers: a sequence of paths, null, or a thrown error. *)

Ok(paths) == [t |-> "ok", v |-> paths, e |-> ""]

Null == [t |-> "null", v |-> <<>>, e |-> ""]

Throw(err) == [t |-> "throw", v |-> <<>>, e |-> err]

SeqMin(S) == CHOOSE n \in S : \A m \in S : n <= m

-----------------------------------------------------------------------------
(* Regular expressions.                                                    *)

\* const escapedTokenRE = /[|\\{}()[\]^$+?.]/g
EscapedTokens == {"|", "\\", "{", "}", "(", ")", "[", "]", "^", "$", "+", "?", "."}

\* code points that "." of a regular expression does not match
LineTerminators == {"\n", "\r"}

\* a variant that leaves the path as it is
ReplaceTrailingSlashKeep(path) == path

\* path.replace(trailingSlashRE, '/*'), const trailingSlashRE = /\/$/
ReplaceTrailingSlash(path) ==
  IF Len(path) > 0 /\ path[Len(path)] = "/" THEN Append(path, "*") ELSE path

\* .replace(escapedTokenRE, '\\$&')
RECURSIVE EscapeTokens(_)
EscapeTokens(str) ==
  IF str = <<>> THEN <<>>
  ELSE (IF Head(str) \in EscapedTokens THEN <<"\\", Head(str)>> ELSE <<Head(str)>>)
       \o EscapeTokens(Tail(str))

\* .replace(wildTokenRE, '(.*?)'), const wildTokenRE = /\*/g
RECURSIVE ReplaceWildTokens(_)
ReplaceWildTokens(str) ==
  IF str = <<>> THEN <<>>
  ELSE (IF Head(str) = "*" THEN <<"(", ".", "*", "?", ")">> ELSE <<Head(str)>>)
       \o ReplaceWildTokens(Tail(str))

IsLazyGroup(src, i) ==
  /\ i + 4 <= Len(src)
  /\ SubSeq(src, i, i + 4) = <<"(", ".", "*", "?", ")">>

\* new RegExp(`^${source}$`): the tokens of the sources this program builds,
\* an escaped character, the group (.*?), "." and plain characters.
RECURSIVE RegExpTokens(_, _)
RegExpTokens(src, i) ==
  IF i > Len(src) THEN <<>>
  ELSE IF src[i] = "\\" /\ i < Len(src)
    THEN <<[k |-> "lit", c |-> src[i + 1]]>> \o RegExpTokens(src, i + 2)
  ELSE IF IsLazyGroup(src, i)
    THEN <<[k |-> "group", c |-> ""]>> \o RegExpTokens(src, i + 5)
  ELSE IF src[i] = "."
    THEN <<[k |-> "any", c |-> ""]>> \o RegExpTokens(src, i + 1)
  ELSE <<[k |-> "lit", c |-> src[i]]>> \o RegExpTokens(src, i + 1)

NoMatch == [ok |-> FALSE, caps |-> <<>>]

\* The backtracking match of tokens ti.. against str[si..], anchored at the
\* end of str; a lazy group takes the shortest span the rest can follow.
RECURSIVE RegExpExec(_, _, _, _)
RegExpExec(toks, ti, str, si) ==
  IF ti > Len(toks) THEN [ok |-> si = Len(str) + 1, caps |-> <<>>]
  ELSE IF toks[ti].k = "lit" THEN
    IF si <= Len(str) /\ str[si] = toks[ti].c
      THEN RegExpExec(toks, ti + 1, str, si + 1) ELSE NoMatch
  ELSE IF toks[ti].k = "any" THEN
    IF si <= Len(str) /\ str[si] \notin LineTerminators
      THEN RegExpExec(toks, ti + 1, str, si + 1) ELSE NoMatch
  ELSE
    LET spans == {n \in 0..(Len(str) - si + 1) :
                    /\ \A j \in si..(si + n - 1) : str[j] \notin LineTerminators
                    /\ RegExpExec(toks, ti + 1, str, si + n).ok}
    IN IF spans = {} THEN NoMatch
       ELSE LET n == SeqMin(spans)
                rest == RegExpExec(toks, ti + 1, str, si + n)
            IN [ok |-> TRUE, caps |-> <<SubSeq(str, si, si + n - 1)>> \o rest.caps]

\* entry.match(matcher): <<>> for null, else <<whole match, capture 1, ...>>
StringMatch(entry, matcher) ==
  LET m == RegExpExec(matcher, 1, entry, 1)
  IN IF m.ok THEN <<entry>> \o m.caps ELSE <<>>

-----------------------------------------------------------------------------
(* The resolvers.                                                          *)

\* a variant that never throws
missingEntryNeverThrows(assertMatch) == Ok(<<>>)

\* missingEntry(pkg, entry, assertMatch)
missingEntry(assertMatch) ==
  IF assertMatch THEN Throw("MissingExport") ELSE Ok(<<>>)

RECURSIVE resolveMapping(_, _, _)
RECURSIVE ArrayLoop(_, _, _, _, _)
RECURSIVE ConditionsLoop(_, _, _, _)

\* a variant that stops at the first item with a non-empty resolution
RECURSIVE ArrayLoopFirstWins(_, _, _, _, _)
ArrayLoopFirstWins(mapping, i, resolved, conditions, assertMatch) ==
  IF i > Len(mapping.items) \/ Len(resolved) > 0
    THEN IF Len(resolved) = 0 THEN missingEntry(assertMatch) ELSE Ok(resolved)
  ELSE LET mapped == resolveMapping(mapping.items[i].v, conditions, FALSE)
       IN IF mapped.t = "throw" THEN mapped
          ELSE IF mapped.t = "null" THEN Null
          ELSE ArrayLoopFirstWins(mapping, i + 1, resolved \o mapped.v,
                                  conditions, assertMatch)

\* resolveArray: the loop from item i on, `resolved` the paths pushed so far
ArrayLoop(mapping, i, resolved, conditions, assertMatch) ==
  IF i > Len(mapping.items)
    THEN IF Len(resolved) = 0 THEN missingEntry(assertMatch) ELSE Ok(resolved)
  ELSE LET mapped == resolveMapping(mapping.items[i].v, conditions, FALSE)
       IN IF mapped.t = "throw" THEN mapped
          ELSE IF mapped.t = "null" THEN Null
          ELSE ArrayLoop(mapping, i + 1, resolved \o mapped.v, conditions, assertMatch)

resolveArray(mapping, conditions, assertMatch) ==
  ArrayLoop(mapping, 1, <<>>, conditions, assertMatch)

\* a variant that returns the resolution of the first active condition,
\* empty or not
RECURSIVE ConditionsLoopFirstActive(_, _, _, _)
ConditionsLoopFirstActive(exports, i, conditions, assertMatch) ==
  IF i > Len(exports.items)
    THEN IF assertMatch THEN Throw("NoMatchingCondition") ELSE Ok(<<>>)
  ELSE LET condition == exports.items[i].k
       IN IF condition \in conditions
            THEN resolveMapping(exports.items[i].v, conditions, FALSE)
          ELSE IF Len(condition) > 0 /\ condition[1] = "."
            THEN Throw("InvalidCondition")
          ELSE ConditionsLoopFirstActive(exports, i + 1, conditions, assertMatch)

\* resolveConditions: the for-in loop from property i on
ConditionsLoop(exports, i, conditions, assertMatch) ==
  IF i > Len(exports.items)
    THEN IF assertMatch THEN Throw("NoMatchingCondition") ELSE Ok(<<>>)
  ELSE LET condition == exports.items[i].k
       IN IF condition \in conditions
            THEN LET resolved == resolveMapping(exports.items[i].v, conditions, FALSE)
                 IN IF resolved.t = "throw" THEN resolved
                    ELSE IF resolved.t = "null" THEN Null
                    ELSE IF Len(resolved.v) > 0 THEN resolved
                    ELSE ConditionsLoop(exports, i + 1, conditions, assertMatch)
          ELSE IF Len(condition) > 0 /\ condition[1] = "."
            THEN Throw("InvalidCondition")
          ELSE ConditionsLoop(exports, i + 1, conditions, assertMatch)

resolveConditions(exports, conditions, assertMatch) ==
  ConditionsLoop(exports, 1, conditions, assertMatch)

\* a variant that takes a null mapping for a mapping without a match
resolveMappingNullIsEmpty(mapping, conditions, assertMatch) ==
  IF mapping.t = "null" THEN Ok(<<>>)
  ELSE IF mapping.t = "string" THEN Ok(<<mapping.s>>)
  ELSE IF mapping.t = "array" THEN resolveArray(mapping, conditions, assertMatch)
  ELSE resolveConditions(mapping, conditions, assertMatch)

resolveMapping(mapping, conditions, assertMatch) ==
  IF mapping.t = "null" THEN Null
  ELSE IF mapping.t = "string" THEN Ok(<<mapping.s>>)
  ELSE IF mapping.t = "array" THEN resolveArray(mapping, conditions, assertMatch)
  ELSE resolveConditions(mapping, conditions, assertMatch)

\* parsePathPattern(pkg, pattern, exports): [RegExp, ExportMapping] or a throw
parsePathPattern(pattern, exports) ==
  IF ~(Len(pattern) > 0 /\ pattern[1] = ".")
    THEN [t |-> "throw", re |-> <<>>, mapping |-> JNull]
  ELSE LET escapedPattern ==
             ReplaceWildTokens(EscapeTokens(ReplaceTrailingSlash(pattern)))
       IN [t |-> "ok", re |-> RegExpTokens(escapedPattern, 1),
           mapping |-> GetProp(exports, pattern)]

\* a.indexOf('*'), counted from 0, -1 when absent
IndexOfStar(a) ==
  IF \E i \in 1..Len(a) : a[i] = "*"
    THEN SeqMin({i \in 1..Len(a) : a[i] = "*"}) - 1
  ELSE -1

\* a variant in which the key declared last always wins
patternKeyCompareLastWins(a, b) == 1

\* a variant that does not compare the lengths of the keys
patternKeyCompareNoLength(a, b) ==
  LET aPatternIndex == IndexOfStar(a)
      bPatternIndex == IndexOfStar(b)
      baseLenA == IF aPatternIndex = -1 THEN Len(a) ELSE aPatternIndex + 1
      baseLenB == IF bPatternIndex = -1 THEN Len(b) ELSE bPatternIndex + 1
  IN IF baseLenA > baseLenB THEN -1
     ELSE IF baseLenB > baseLenA THEN 1
     ELSE IF aPatternIndex = -1 THEN 1
     ELSE IF bPatternIndex = -1 THEN -1
     ELSE 0

patternKeyCompare(a, b) ==
  LET aPatternIndex == IndexOfStar(a)
      bPatternIndex == IndexOfStar(b)
      baseLenA == IF aPatternIndex = -1 THEN Len(a) ELSE aPatternIndex + 1
      baseLenB == IF bPatternIndex = -1 THEN Len(b) ELSE bPatternIndex + 1
  IN IF baseLenA > baseLenB THEN -1
     ELSE IF baseLenB > baseLenA THEN 1
     ELSE IF aPatternIndex = -1 THEN 1
     ELSE IF bPatternIndex = -1 THEN -1
     ELSE IF Len(a) > Len(b) THEN -1
     ELSE IF Len(b) > Len(a) THEN 1
     ELSE 0

\* path.replace(wildTokenRE, () => match[Math.min(match.length - 1, slotIndex++)])
\* from character i on; match[k] of the code is match[k + 1] here.
RECURSIVE ReplaceSlots(_, _, _, _)
ReplaceSlots(path, i, slotIndex, match) ==
  IF i > Len(path) THEN <<>>
  ELSE IF path[i] = "*"
    THEN LET k == IF Len(match) - 1 < slotIndex THEN Len(match) - 1 ELSE slotIndex
         IN match[k + 1] \o ReplaceSlots(path, i + 1, slotIndex + 1, match)
  ELSE <<path[i]>> \o ReplaceSlots(path, i + 1, slotIndex, match)

\* a variant that leaves a trailing "/" of the path as it is
SubstituteSlotsKeepSlash(resolved, match) ==
  [j \in 1..Len(resolved) |-> ReplaceSlots(resolved[j], 1, 1, match)]

\* resolved.map((path) => ...)
SubstituteSlots(resolved, match) ==
  [j \in 1..Len(resolved) |->
     ReplaceSlots(ReplaceTrailingSlash(resolved[j]), 1, 1, match)]

\* expandSet(set, ...conditions), `conditions` given flattened; falsy
\* arguments (undefined, the empty string) are not added
expandSet(set, conditions) ==
  set \cup {conditions[i] : i \in {j \in 1..Len(conditions) : conditions[j] # <<>>}}

-----------------------------------------------------------------------------
(* Condition names.                                                        *)

IMPORT == <<"i", "m", "p", "o", "r", "t">>

MODULE_ == <<"m", "o", "d", "u", "l", "e">>

REQUIRE == <<"r", "e", "q", "u", "i", "r", "e">>

DEFAULT == <<"d", "e", "f", "a", "u", "l", "t">>

PRODUCTION == <<"p", "r", "o", "d", "u", "c", "t", "i", "o", "n">>

DEVELOPMENT == <<"d", "e", "v", "e", "l", "o", "p", "m", "e", "n", "t">>

\* new Set(array)
SetOf(array) == {array[i] : i \in 1..Len(array)}

\* a variant that leaves out 'default'
buildConditionsNoDefault(options, inlineConditions) ==
  LET conditions ==
        expandSet(SetOf(inlineConditions),
                  options.conditions
                    \o <<IF options.isProduction THEN PRODUCTION ELSE DEVELOPMENT>>)
  IN IF IMPORT \notin conditions
       THEN expandSet(conditions,
                      IF options.isRequire THEN <<REQUIRE>> ELSE <<IMPORT, MODULE_>>)
     ELSE conditions

\* The condition set of a call (options.conditions and inlineConditions are
\* arrays; an absent one is the empty array here, which adds nothing either).
buildConditions(options, inlineConditions) ==
  LET conditions ==
        expandSet(SetOf(inlineConditions),
                  options.conditions
                    \o <<IF options.isProduction THEN PRODUCTION ELSE DEVELOPMENT>>
                    \o <<DEFAULT>>)
  IN IF IMPORT \notin conditions
       THEN expandSet(conditions,
                      IF options.isRequire THEN <<REQUIRE>> ELSE <<IMPORT, MODULE_>>)
     ELSE conditions

-----------------------------------------------------------------------------
(* resolveExports.                                                         *)

\* a variant that accepts every entry that starts with "."
ValidEntryAnyDot(entry) == Len(entry) >= 1 /\ entry[1] = "."

\* entry === '.' || entry.startsWith('./')
ValidEntry(entry) ==
  \/ entry = <<".">>
  \/ Len(entry) >= 2 /\ entry[1] = "." /\ entry[2] = "/"

\* !exports
Falsy(exports) ==
  \/ exports.t \in {"undefined", "null"}
  \/ exports.t = "string" /\ exports.s = <<>>

\* !exports || typeof exports !== 'object' || isArray(exports)
NeedsWrapping(exports) == Falsy(exports) \/ exports.t # "object"

\* exports = { '.': exports || null }
Normalize(exports) ==
  IF NeedsWrapping(exports)
    THEN JObj(<<Prop(<<".">>, IF Falsy(exports) THEN JNull ELSE exports)>>)
  ELSE exports

\* a variant that takes every object for a path-pattern map
FirstKeyIsNotPathNever(keys) == FALSE

\* keys[0][0] !== '.'
FirstKeyIsNotPath(keys) == ~(Len(keys[1]) > 0 /\ keys[1][1] = ".")

\* The loop over keys from index i on.  st holds the loop's variables:
\* matchers (the cached array), bestKey and globResolved (<<>> and hasGlob
\* FALSE while undefined), and compiled, the indices parsed by this call.
RECURSIVE KeyLoop(_, _, _, _, _, _, _)
KeyLoop(exports, keys, i, st, entry, conditions, assertMatch) ==
  IF i > Len(keys)
    THEN [out |-> IF st.hasGlob THEN Ok(st.globResolved) ELSE missingEntry(assertMatch),
          matchers |-> st.matchers, compiled |-> st.compiled]
  ELSE
    LET cached == i <= Len(st.matchers)
        parsed == IF cached THEN st.matchers[i] ELSE parsePathPattern(keys[i], exports)
    IN IF parsed.t = "throw"
         THEN [out |-> Throw("InvalidPathPattern"),
               matchers |-> st.matchers, compiled |-> st.compiled]
       ELSE
         LET st1 == IF cached THEN st
                    ELSE [st EXCEPT !.matchers = Append(@, parsed),
                                    !.compiled = @ \cup {i}]
             done(o) == [out |-> o, matchers |-> st1.matchers, compiled |-> st1.compiled]
             match == StringMatch(entry, parsed.re)
         IN IF match = <<>>
              THEN KeyLoop(exports, keys, i + 1, st1, entry, conditions, assertMatch)
            ELSE
              LET isExactMatch == Len(match) = 1
                  resolved == resolveMapping(parsed.mapping, conditions,
                                             assertMatch /\ isExactMatch)
              IN IF resolved.t = "throw" THEN done(resolved)
                 ELSE IF resolved.t = "null" THEN done(missingEntry(assertMatch))
                 ELSE IF isExactMatch THEN done(resolved)
                 ELSE IF Len(resolved.v) = 0
                   THEN KeyLoop(exports, keys, i + 1, st1, entry, conditions, assertMatch)
                 ELSE IF st1.bestKey # <<>> /\ patternKeyCompare(st1.bestKey, keys[i]) <= 0
                   THEN KeyLoop(exports, keys, i + 1, st1, entry, conditions, assertMatch)
                 ELSE KeyLoop(exports, keys, i + 1,
                              [st1 EXCEPT !.bestKey = keys[i], !.hasGlob = TRUE,
                                          !.globResolved = SubstituteSlots(resolved.v, match)],
                              entry, conditions, assertMatch)

\* resolveExports(pkg, entry, options, inlineConditions) with `cached` the
\* array pathMatchersCache holds for the export map (<<>> when it holds none).
\* The result: out, what the call returns or throws; conditions, the set the
\* call built ({} when it returned before); matchers, the array the cache
\* holds for the export map afterwards; stored, whether the call wrote the
\* cache; compiled, the key indices it parsed.
resolveExports(p, entry, options, inlineConditions, cached) ==
  LET assertMatch == options.assertMatch
  IN IF ~ValidEntry(entry)
       THEN [out |-> missingEntry(assertMatch), conditions |-> {},
             matchers |-> cached, stored |-> FALSE, compiled |-> {}]
     ELSE
       LET exports == Normalize(p.exports)
           conditions == buildConditions(options, inlineConditions)
           keys == ObjectKeys(exports)
           early(o) == [out |-> o, conditions |-> conditions,
                        matchers |-> cached, stored |-> FALSE, compiled |-> {}]
       IN IF Len(keys) = 0 THEN early(Throw("TypeError"))
          ELSE IF FirstKeyIsNotPath(keys)
            THEN IF entry = <<".">>
                   THEN LET r == resolveMapping(exports, conditions, assertMatch)
                        IN IF r.t = "null" THEN early(missingEntry(assertMatch))
                           ELSE early(r)
                 ELSE early(missingEntry(assertMatch))
          ELSE
            LET fresh == NeedsWrapping(p.exports)
                r == KeyLoop(exports, keys, 1,
                             [matchers |-> IF fresh THEN <<>> ELSE cached,
                              bestKey |-> <<>>, hasGlob |-> FALSE,
                              globResolved |-> <<>>, compiled |-> {}],
                             entry, conditions, assertMatch)
            IN [out |-> r.out,
                conditions |-> conditions,
                matchers |-> IF fresh THEN cached ELSE r.matchers,
                stored |-> ~fresh,
                compiled |-> r.compiled]

-----------------------------------------------------------------------------
(* Inputs: package descriptors, entries and options.                       *)

\* bounds of the generated descriptors
MaxKeys == 2

MaxProps == 2

MaxItems == 2

S_a == <<".", "/", "a">>

S_star == <<".", "/", "*">>

S_aSlash == <<".", "/", "a", "/">>

S_aStar == <<".", "/", "a", "*">>

S_b == <<".", "/", "b">>

S_x == <<".", "/", "x">>

S_y == <<".", "/", "y">>

S_p == <<".", "/", "p">>

S_1Slash == <<".", "/", "1", "/">>

S_2Star == <<".", "/", "2", "/", "*">>

\* sequences of n distinct elements of S
Distinct(S, n) == {f \in [1..n -> S] : \A i, j \in 1..n : i # j => f[i] # f[j]}

\* objects of n properties, keys from `keys` (all different), values from `values`
ObjectsOver(keys, values, n) ==
  {JObj([i \in 1..n |-> Prop(ks[i], vs[i])]) : ks \in Distinct(keys, n), vs \in [1..n -> values]}

ListsOver(values, n) == {JList(vs) : vs \in [1..n -> values]}

\* keys of the generated path-pattern maps; IMPORT is a key that is no path
PathKeys == {S_a, S_star, S_aSlash, S_aStar, IMPORT}

PathValues == {JNull, JStr(S_1Slash), JObj(<<Prop(IMPORT, JStr(S_2Star))>>)}

PatternMaps == UNION {ObjectsOver(PathKeys, PathValues, n) : n \in 1..MaxKeys}

\* keys of the generated condition objects; S_b is a key that is no condition
ConditionKeys == {IMPORT, DEFAULT, S_b}

Leaves == {JNull, JStr(S_x), JStr(S_y)}

Nested == {JObj(<<Prop(PRODUCTION, JStr(S_p))>>), JList(<<>>)}

Mappings ==
  (UNION {ObjectsOver(ConditionKeys, Leaves \cup Nested, n) : n \in 0..MaxProps})
  \cup (UNION {ListsOver(Leaves \cup Nested, n) : n \in 0..MaxItems})

GeneratedPackages ==
  {[exports |-> e] : e \in PatternMaps \cup Mappings \cup {JUndefined, JNull, JStr(<<>>), JStr(S_x)}}

GeneratedEntries == {<<".">>, S_a, <<".", "/", "a", "/", "x">>, S_aSlash,
                     <<>>, <<"a">>, <<".", ".", "/", "a">>}

(* The export maps of the repository's tests, with the entries they use.   *)

\* test 'wildcard token'
ReadmeWildcardToken ==
  JObj(<<Prop(<<".", "/", "*">>, JStr(<<".", "/", "*", ".", "j", "s">>)),
         Prop(<<".", "/", "*", ".", "*">>, JStr(<<".", "/", "*", "/", "i", "n", "d", "e", "x", ".", "*">>)),
         Prop(<<".", "/", "*", ".", "c", "s", "s">>, JStr(<<".", "/", "*", "/", "*", ".", "c", "s", "s">>)),
         Prop(<<".", "/", "*", ".", "t", "s">>, JStr(<<".", "/", "*", "/", "i", "n", "d", "e", "x", ".", "t", "s">>))>>)

\* test 'array mapping'
ReadmeArrayMapping ==
  JObj(<<Prop(<<".", "/", "*">>, JList(<<JStr(<<".", "/", "*", ".", "j", "s">>),
                 JStr(<<".", "/", "*", ".", "c", "j", "s">>)>>))>>)

\* test 'array mapping with nested conditions'
ReadmeArrayNested ==
  JObj(<<Prop(<<".", "/", "*">>, JList(<<JObj(<<Prop(IMPORT, JObj(<<Prop(DEVELOPMENT, JStr(<<".", "/", "*", ".", "j", "s">>))>>))>>),
                 JObj(<<Prop(REQUIRE, JList(<<JStr(<<".", "/", "*", ".", "c", "j", "s">>)>>))>>)>>)),
         Prop(<<".", "/", "b", "a", "r">>, JList(<<JObj(<<Prop(IMPORT, JNull)>>),
                 JStr(<<".", "/", "b", "a", "r", ".", "c", "j", "s">>)>>))>>)

\* test 'null mapping'
ReadmeNullMapping ==
  JObj(<<Prop(<<".", "/", "*">>, JStr(<<".", "/", "*", ".", "j", "s">>)),
         Prop(<<".", "/", "b", "a", "r">>, JObj(<<Prop(IMPORT, JNull),
                Prop(DEFAULT, JStr(<<".", "/", "b", "a", "r", ".", "c", "j", "s">>))>>)),
         Prop(<<".", "/", "i", "n", "t", "e", "r", "n", "a", "l", "/", "*">>, JNull)>>)

\* test 'trailing slash'
ReadmeTrailingSlash ==
  JObj(<<Prop(<<".", "/", "f", "o", "o", "/">>, JStr(<<".", "/", "1", "/">>)),
         Prop(<<".", "/", "f", "o", "o", "/", "b", "a", "r", "/">>, JStr(<<".", "/", "2", "/">>)),
         Prop(<<".", "/">>, JStr(<<".", "/", "3", "/">>))>>)

\* test 'nested condition mismatch'
ReadmeNestedMismatch ==
  JObj(<<Prop(<<".">>, JObj(<<Prop(IMPORT, JObj(<<Prop(PRODUCTION, JStr(<<".", "/", "f", "o", "o", ".", "j", "s">>))>>)),
                Prop(DEFAULT, JStr(<<".", "/", "f", "o", "o", ".", "c", "j", "s">>))>>))>>)

\* test 'invalid path pattern'
ReadmeInvalidPathPattern ==
  JObj(<<Prop(<<".">>, JStr(<<".", "/", "i", "n", "d", "e", "x", ".", "j", "s">>)),
         Prop(IMPORT, JStr(<<".", "/", "f", "o", "o", ".", "j", "s">>))>>)

\* test 'invalid condition'
ReadmeInvalidCondition ==
  JObj(<<Prop(<<".", "/", "f", "o", "o">>, JObj(<<Prop(<<".", "/", "b", "a", "r">>, JStr(<<".", "/", "b", "a", "r", ".", "c", "j", "s">>))>>))>>)

\* test 'exact subpath match', second export map
ReadmeExactSubpath ==
  JObj(<<Prop(<<".", "/", "f", "o", "o">>, JObj(<<Prop(IMPORT, JObj(<<Prop(DEVELOPMENT, JStr(<<".", "/", "f", "o", "o", ".", "j", "s">>))>>))>>))>>)

\* test 'null mapping' without its './bar' key
ExamplePatternExclusion ==
  JObj(<<Prop(<<".", "/", "*">>, JStr(<<".", "/", "*", ".", "j", "s">>)),
         Prop(<<".", "/", "i", "n", "t", "e", "r", "n", "a", "l", "/", "*">>, JNull)>>)

\* test 'wildcard token': its key that maps two globs to two slots, alone
ExampleTwoGlobsTwoSlots ==
  JObj(<<Prop(<<".", "/", "*", ".", "*">>, JStr(<<".", "/", "*", "/", "i", "n", "d", "e", "x", ".", "*">>))>>)

\* test 'wildcard token': its key that maps one glob to two slots, alone
ExampleOneGlobTwoSlots ==
  JObj(<<Prop(<<".", "/", "*", ".", "c", "s", "s">>, JStr(<<".", "/", "*", "/", "*", ".", "c", "s", "s">>))>>)

(* Export maps with two wildcard keys that match './foo/bar' and are close  *)
(* in specificity.                                                         *)

\* './foo/' and './foo/*': the same static prefix, one key without "*"
ExampleSamePrefixOneStar ==
  JObj(<<Prop(<<".", "/", "f", "o", "o", "/">>, JStr(<<".", "/", "1", "/", "*">>)),
         Prop(<<".", "/", "f", "o", "o", "/", "*">>, JStr(<<".", "/", "2", "/", "*">>))>>)

\* the same keys declared in the other order
ExampleSamePrefixOneStarSwapped ==
  JObj(<<Prop(<<".", "/", "f", "o", "o", "/", "*">>, JStr(<<".", "/", "2", "/", "*">>)),
         Prop(<<".", "/", "f", "o", "o", "/">>, JStr(<<".", "/", "1", "/", "*">>))>>)

\* './*' and './*/bar': the same base length, one key longer
ExampleSameBaseLongerKey ==
  JObj(<<Prop(<<".", "/", "*">>, JStr(<<".", "/", "1", "/", "*">>)),
         Prop(<<".", "/", "*", "/", "b", "a", "r">>, JStr(<<".", "/", "2", "/", "*">>))>>)

\* the same keys declared in the other order
ExampleSameBaseLongerKeySwapped ==
  JObj(<<Prop(<<".", "/", "*", "/", "b", "a", "r">>, JStr(<<".", "/", "2", "/", "*">>)),
         Prop(<<".", "/", "*">>, JStr(<<".", "/", "1", "/", "*">>))>>)

\* './*/bar' and './*/b*r': the same base length and the same length
ExampleSameBaseSameLength ==
  JObj(<<Prop(<<".", "/", "*", "/", "b", "a", "r">>, JStr(<<".", "/", "1", "/", "*">>)),
         Prop(<<".", "/", "*", "/", "b", "*", "r">>, JStr(<<".", "/", "2", "/", "*">>))>>)

\* the same keys declared in the other order
ExampleSameBaseSameLengthSwapped ==
  JObj(<<Prop(<<".", "/", "*", "/", "b", "*", "r">>, JStr(<<".", "/", "2", "/", "*">>)),
         Prop(<<".", "/", "*", "/", "b", "a", "r">>, JStr(<<".", "/", "1", "/", "*">>))>>)

TieExamples ==
  {ExampleSamePrefixOneStar, ExampleSamePrefixOneStarSwapped,
   ExampleSameBaseLongerKey, ExampleSameBaseLongerKeySwapped,
   ExampleSameBaseSameLength, ExampleSameBaseSameLengthSwapped}

ReadmePackages ==
  {[exports |-> e] : e \in
     TieExamples \cup
     {ExampleTwoGlobsTwoSlots,
      ExampleOneGlobTwoSlots,
      ReadmeWildcardToken,
      ReadmeArrayMapping,
      ReadmeArrayNested,
      ReadmeNullMapping,
      ReadmeTrailingSlash,
      ReadmeNestedMismatch,
      ReadmeInvalidPathPattern,
      ReadmeInvalidCondition,
      ReadmeExactSubpath,
      ExamplePatternExclusion}}

\* the entries the tests resolve
ReadmeEntries ==
  {<<".">>,
   <<".", "/", "f", "o", "o">>,
   <<".", "/", "b", "a", "r">>,
   <<".", "/", "f", "o", "o", "/">>,
   <<".", "/", "f", "o", "o", "/", "b", "a", "r">>,
   <<".", "/", "f", "o", "o", ".", "t", "s">>,
   <<".", "/", "f", "o", "o", ".", "c", "s", "s">>,
   <<".", "/", "f", "o", "o", ".", "c", "o", "f", "f", "e", "e">>,
   <<".", "/", "f", "o", "o", ".", "j", "s">>,
   <<".", "/", "i", "n", "t", "e", "r", "n", "a", "l", "/", "f", "o", "o">>,
   <<".", "/", "f", "o", "o", "/", "m", "a", "i", "n", ".", "j", "s">>,
   <<".", "/", "f", "o", "o", "/", "b", "a", "r", "/", "m", "a", "i", "n", ".", "j", "s">>,
   <<"f", "o", "o">>,
   <<".", ".", "/", "f", "o", "o">>}

Packages == GeneratedPackages \cup ReadmePackages

\* the entries a descriptor is resolved with
Entries(p) == IF p \in ReadmePackages THEN ReadmeEntries ELSE GeneratedEntries

NoOptions == [assertMatch |-> FALSE, conditions |-> <<>>,
              isProduction |-> FALSE, isRequire |-> FALSE]

OptionSets ==
  {NoOptions,
   [NoOptions EXCEPT !.isRequire = TRUE],
   [NoOptions EXCEPT !.isProduction = TRUE],
   [NoOptions EXCEPT !.assertMatch = TRUE],
   [NoOptions EXCEPT !.assertMatch = TRUE, !.isRequire = TRUE],
   [NoOptions EXCEPT !.conditions = <<IMPORT>>, !.isRequire = TRUE],
   [NoOptions EXCEPT !.conditions = <<S_b>>]}

InlineSets == {<<>>}

-----------------------------------------------------------------------------
(* The state machine: a package descriptor, the cache, and the latest call  *)
(* for as long as its caller holds the result.                             *)

\* the identity of pkg.exports, the key of its entry in the WeakMap
TheExports == "pkg.exports"

\* no call yet, or the caller is done with the result of the latest one
NoCall == [active |-> FALSE, entry |-> <<>>, options |-> NoOptions,
           inlineConditions |-> <<>>, out |-> Ok(<<>>), conditions |-> {},
           before |-> <<>>, compiled |-> {},
           repeated |-> FALSE, previous |-> Ok(<<>>)]

\* pathMatchersCache.get(exports) || []
CacheGet == IF TheExports \in DOMAIN pathMatchersCache
              THEN pathMatchersCache[TheExports] ELSE <<>>

\* no calls side by side
NoRace ==
  /\ callers = <<>>
  /\ arrays = <<>>
  /\ sharedArray = 0

Init ==
  /\ pkg \in Packages
  /\ pathMatchersCache = <<>>
  /\ call = NoCall
  /\ NoRace

\* One call of resolveExports, from its invocation to its return or throw.
\* A caller that still holds the result of the latest call makes the same
\* call again: `repeated` says so and `previous` is the result it held.
Resolve(entry, options, inlineConditions) ==
  /\ IF call.active
       THEN <<entry, options, inlineConditions>>
              = <<call.entry, call.options, call.inlineConditions>>
       ELSE TRUE
  /\ \E r \in {resolveExports(pkg, entry, options, inlineConditions, CacheGet)} :
       /\ call' = [active |-> TRUE, entry |-> entry, options |-> options,
                   inlineConditions |-> inlineConditions, out |-> r.out,
                   conditions |-> r.conditions,
                   before |-> CacheGet, compiled |-> r.compiled,
                   repeated |-> call.active,
                   previous |-> IF call.active THEN call.out ELSE Ok(<<>>)]
       /\ pathMatchersCache' =
            IF r.stored THEN (TheExports :> r.matchers) ELSE pathMatchersCache
  /\ UNCHANGED <<pkg, raceVars>>

\* the caller is done with the result; any call may follow
Return ==
  /\ call.active
  /\ call' = NoCall
  /\ UNCHANGED <<pkg, pathMatchersCache, raceVars>>

Next ==
  \/ \E entry \in Entries(pkg), options \in OptionSets, inlineConditions \in InlineSets :
       Resolve(entry, options, inlineConditions)
  \/ Return

Spec == Init /\ [][Next]_vars

-----------------------------------------------------------------------------
(* The same program with the conditions of the caller varied: calls that   *)
(* resolve "." of one descriptor with every combination of the options and *)
(* of short arrays of custom and inline conditions.                        *)

\* the longest array of conditions a caller passes
MaxConditions == 1

\* names a caller passes: conditions the program adds itself, one it does
\* not, and the empty string, which is falsy
PassedConditions == {IMPORT, REQUIRE, PRODUCTION, S_b, <<>>}

ConditionArrays ==
  UNION {[1..n -> PassedConditions] : n \in 0..MaxConditions}

ConditionOptionSets ==
  [assertMatch : BOOLEAN, conditions : ConditionArrays,
   isProduction : BOOLEAN, isRequire : BOOLEAN]

ConditionsInit ==
  /\ pkg = [exports |-> ReadmeNestedMismatch]
  /\ pathMatchersCache = <<>>
  /\ call = NoCall
  /\ NoRace

ConditionsNext ==
  \/ \E options \in ConditionOptionSets, inlineConditions \in ConditionArrays :
       Resolve(<<".">>, options, inlineConditions)
  \/ Return

ConditionsSpec == ConditionsInit /\ [][ConditionsNext]_vars

-----------------------------------------------------------------------------
(* The same program statement by statement, for calls that run side by      *)
(* side on one path-pattern map: every caller goes through the statements  *)
(* of resolveExports one at a time and the steps of the callers interleave *)
(* in every order.  A matcher array is an object: callers that read it      *)
(* from the cache hold the same array.                                     *)

\* the number of callers
NumCallers == 2

Callers == 1..NumCallers

\* no array
NoArray == 0

\* an empty slot of an array
Undefined == [t |-> "undefined"]

\* a variant that reads the slot before
ArrayGetBefore(array, i) ==
  IF i > 1 /\ i - 1 <= Len(array) THEN array[i - 1] ELSE Undefined

\* matchers[i], with i counted from 1
ArrayGet(array, i) == IF i <= Len(array) THEN array[i] ELSE Undefined

\* matchers[i] = matcher, with i counted from 1: the array grows to hold it
ArraySet(array, i, matcher) ==
  [j \in 1..(IF i > Len(array) THEN i ELSE Len(array)) |->
     IF j = i THEN matcher
     ELSE IF j <= Len(array) THEN array[j]
     ELSE Undefined]

\* a caller that has made no call yet
Idle == [pc |-> "idle", entry |-> <<>>, options |-> NoOptions,
         matchers |-> NoArray, i |-> 0, matcher |-> Undefined, parsed |-> FALSE,
         bestKey |-> <<>>, hasGlob |-> FALSE, globResolved |-> <<>>,
         out |-> Ok(<<>>)]

\* export maps with an exact key that ends the loop early, a key that does
\* not parse, and wildcard keys of close rank
RaceExports == {ReadmeInvalidPathPattern, ExampleSameBaseLongerKey}

RaceEntries ==
  {<<".">>,
   <<".", "/", "f", "o", "o", "/", "b", "a", "r">>,
   <<"f", "o", "o">>}

RaceOptionSets == {NoOptions}

RaceInit ==
  /\ pkg \in {[exports |-> e] : e \in RaceExports}
  /\ pathMatchersCache = <<>>
  /\ call = NoCall
  /\ callers = [c \in Callers |-> Idle]
  /\ arrays = [c \in Callers |-> <<>>]
  /\ sharedArray = NoArray

\* the caller's call ends with what it returns or throws
Finish(c, o) ==
  callers' = [callers EXCEPT ![c].pc = "done", ![c].out = o,
                             ![c].matcher = Undefined, ![c].parsed = FALSE,
                             ![c].i = 0, ![c].bestKey = <<>>,
                             ![c].hasGlob = FALSE, ![c].globResolved = <<>>]

\* the caller goes on with the next key
Continue(c, bestKey, hasGlob, globResolved) ==
  callers' = [callers EXCEPT ![c].pc = "loop", ![c].i = @ + 1,
                             ![c].matcher = Undefined, ![c].parsed = FALSE,
                             ![c].bestKey = bestKey, ![c].hasGlob = hasGlob,
                             ![c].globResolved = globResolved]

\* A call, by a caller that is done with the result of its call before, up
\* to const matchers = pathMatchersCache.get(exports) || []: the statements
\* before it touch the caller's own variables only.  A new array takes the
\* identity of the caller that made it: a caller makes one only while the
\* cache holds none, which is before its first set.
Get(c, entry, options) ==
  LET self == [Idle EXCEPT !.entry = entry, !.options = options]
  IN /\ callers[c].pc \in {"idle", "done"}
     /\ IF ~ValidEntry(entry)
          THEN /\ callers' = [callers EXCEPT ![c] =
                                [self EXCEPT !.pc = "done",
                                             !.out = missingEntry(options.assertMatch)]]
               /\ UNCHANGED arrays
        ELSE IF sharedArray = NoArray
          THEN /\ callers' = [callers EXCEPT ![c] =
                                [self EXCEPT !.pc = "set", !.matchers = c]]
               /\ arrays' = [arrays EXCEPT ![c] = <<>>]
        ELSE /\ callers' = [callers EXCEPT ![c] =
                              [self EXCEPT !.pc = "set", !.matchers = sharedArray]]
             /\ UNCHANGED arrays
     /\ UNCHANGED <<pkg, pathMatchersCache, call, sharedArray>>

\* pathMatchersCache.set(exports, matchers); let i = 0
Set(c) ==
  /\ callers[c].pc = "set"
  /\ sharedArray' = callers[c].matchers
  /\ callers' = [callers EXCEPT ![c].pc = "loop", ![c].i = 1]
  /\ UNCHANGED <<pkg, pathMatchersCache, call, arrays>>

\* i < keys.length, and the read of matchers[i] ||= parsePathPattern(...):
\* the slot if it holds a matcher, the parsed key otherwise
Lookup(c) ==
  LET self == callers[c]
      keys == ObjectKeys(pkg.exports)
  IN /\ self.pc = "loop"
     /\ IF self.i > Len(keys)
          THEN Finish(c, IF self.hasGlob THEN Ok(self.globResolved)
                         ELSE missingEntry(self.options.assertMatch))
        ELSE
          LET slot == ArrayGet(arrays[self.matchers], self.i)
          IN IF slot # Undefined
               THEN callers' = [callers EXCEPT ![c].pc = "match", ![c].matcher = slot]
             ELSE
               LET parsed == parsePathPattern(keys[self.i], pkg.exports)
               IN IF parsed.t = "throw"
                    THEN Finish(c, Throw("InvalidPathPattern"))
                  ELSE callers' = [callers EXCEPT ![c].pc = "match",
                                                  ![c].matcher = parsed,
                                                  ![c].parsed = TRUE]
     /\ UNCHANGED <<pkg, pathMatchersCache, call, arrays, sharedArray>>

\* the write of matchers[i] ||= parsePathPattern(...) and the rest of the
\* loop's body, which touches the caller's own variables only
Match(c) ==
  LET self == callers[c]
      keys == ObjectKeys(pkg.exports)
      assertMatch == self.options.assertMatch
      conditions == buildConditions(self.options, <<>>)
      match == StringMatch(self.entry, self.matcher.re)
  IN /\ self.pc = "match"
     /\ arrays' = IF self.parsed
                    THEN [arrays EXCEPT ![self.matchers] = ArraySet(@, self.i, self.matcher)]
                  ELSE arrays
     /\ IF match = <<>>
          THEN Continue(c, self.bestKey, self.hasGlob, self.globResolved)
        ELSE
          LET isExactMatch == Len(match) = 1
              resolved == resolveMapping(self.matcher.mapping, conditions,
                                         assertMatch /\ isExactMatch)
          IN IF resolved.t = "throw" THEN Finish(c, resolved)
             ELSE IF resolved.t = "null" THEN Finish(c, missingEntry(assertMatch))
             ELSE IF isExactMatch THEN Finish(c, resolved)
             ELSE IF Len(resolved.v) = 0
               THEN Continue(c, self.bestKey, self.hasGlob, self.globResolved)
             ELSE IF self.bestKey # <<>> /\ patternKeyCompare(self.bestKey, keys[self.i]) <= 0
               THEN Continue(c, self.bestKey, self.hasGlob, self.globResolved)
             ELSE Continue(c, keys[self.i], TRUE, SubstituteSlots(resolved.v, match))
     /\ UNCHANGED <<pkg, pathMatchersCache, call, sharedArray>>

RaceNext ==
  \E c \in Callers :
    \/ \E entry \in RaceEntries, options \in RaceOptionSets : Get(c, entry, options)
    \/ Set(c)
    \/ Lookup(c)
    \/ Match(c)

RaceSpec == RaceInit /\ [][RaceNext]_vars

-----------------------------------------------------------------------------
(* Vocabulary of the properties.  These definitions state what the          *)
(* specification says; they use no operator of the resolvers above.        *)

StartsWithDot(str) == Len(str) > 0 /\ str[1] = "."

EndsWithSlash(str) == Len(str) > 0 /\ str[Len(str)] = "/"

HasStar(str) == \E i \in 1..Len(str) : str[i] = "*"

FirstStar(str) == SeqMin({i \in 1..Len(str) : str[i] = "*"})

\* a wildcard key: one with a "*" token or the trailing-slash shorthand
IsWildcardKey(key) == HasStar(key) \/ EndsWithSlash(key)

\* an entry the resolver accepts
IsEntrySpecifier(entry) ==
  entry = <<".">> \/ (Len(entry) >= 2 /\ SubSeq(entry, 1, 2) = <<".", "/">>)

\* a key as a glob: each "*" stands for any span without a line break
RECURSIVE GlobFits(_, _)
GlobFits(glob, str) ==
  IF glob = <<>> THEN str = <<>>
  ELSE IF Head(glob) = "*"
    THEN \E n \in 0..Len(str) :
           /\ \A j \in 1..n : str[j] \notin {"\n", "\r"}
           /\ GlobFits(Tail(glob), SubSeq(str, n + 1, Len(str)))
  ELSE str # <<>> /\ Head(str) = Head(glob) /\ GlobFits(Tail(glob), Tail(str))

KeyMatches(key, entry) ==
  GlobFits(IF EndsWithSlash(key) THEN key \o <<"*">> ELSE key, entry)

RECURSIVE Flatten(_)
Flatten(seqs) == IF seqs = <<>> THEN <<>> ELSE Head(seqs) \o Flatten(Tail(seqs))

\* 4.2, List: Excluded if any item is, else the concatenation of the items
ListRule(results) ==
  IF \E i \in 1..Len(results) : results[i].t = "null" THEN Null
  ELSE Ok(Flatten([i \in 1..Len(results) |-> results[i].v]))

\* 4.2, Conditional: the outcome of the first entry whose key is active and
\* whose value does not resolve empty; empty when there is none
ConditionalRule(keys, results, conditions) ==
  LET qualifying == {i \in 1..Len(keys) : keys[i] \in conditions /\ results[i] # Ok(<<>>)}
  IN IF qualifying = {} THEN Ok(<<>>) ELSE results[SeqMin(qualifying)]

\* 4.2, the three-valued resolution of a mapping: Null is Excluded
RECURSIVE Resolution(_, _)
Resolution(mapping, conditions) ==
  IF mapping.t = "null" THEN Null
  ELSE IF mapping.t = "string" THEN Ok(<<mapping.s>>)
  ELSE LET results == [i \in 1..Len(mapping.items) |->
                         Resolution(mapping.items[i].v, conditions)]
       IN IF mapping.t = "array" THEN ListRule(results)
          ELSE ConditionalRule(ObjectKeys(mapping), results, conditions)

\* the mappings nested in a value, the value included
RECURSIVE SubMappings(_)
SubMappings(value) ==
  {value} \cup UNION {SubMappings(value.items[i].v) : i \in 1..Len(value.items)}

\* no conditions object of the mapping has a key that begins with "."
NoPathKeyInConditions(mapping) ==
  \A m \in SubMappings(mapping) :
    m.t = "object" => \A i \in 1..Len(m.items) : ~StartsWithDot(m.items[i].k)

\* an object whose first key begins with "."
FirstKeyIsPath(exports) ==
  exports.t = "object" /\ Len(exports.items) > 0 /\ StartsWithDot(exports.items[1].k)

\* a well-formed path-pattern map: every key begins with ".", and the
\* conditions objects below hold no such key
IsPathPatternMap(exports) ==
  /\ FirstKeyIsPath(exports)
  /\ \A i \in 1..Len(exports.items) :
       /\ StartsWithDot(exports.items[i].k)
       /\ NoPathKeyInConditions(exports.items[i].v)

ActiveConditions == buildConditions(call.options, call.inlineConditions)

KeyAt(i) == pkg.exports.items[i].k

\* the resolution of the i-th key's mapping under the call's conditions
ResolutionAt(i) == Resolution(pkg.exports.items[i].v, ActiveConditions)

\* the paths a call returns for a resolution
PathsOf(resolution) == IF resolution.t = "null" THEN <<>> ELSE resolution.v

\* the keys without wildcard equal to the call's entry
ExactKeys ==
  {i \in 1..Len(pkg.exports.items) : ~IsWildcardKey(KeyAt(i)) /\ KeyAt(i) = call.entry}

\* the wildcard keys that match the call's entry
MatchingWildcards ==
  {i \in 1..Len(pkg.exports.items) :
     IsWildcardKey(KeyAt(i)) /\ KeyMatches(KeyAt(i), call.entry)}

\* the candidates: matching wildcard keys with a non-empty resolution
Candidates ==
  {i \in MatchingWildcards : ResolutionAt(i).t = "ok" /\ ResolutionAt(i).v # <<>>}

\* match[1..n] of the entry against the i-th key
CapturesAt(i) ==
  Tail(StringMatch(call.entry, parsePathPattern(KeyAt(i), pkg.exports).re))

\* the result of candidate i with its slots substituted
SubstitutedAt(i) ==
  Ok(SubstituteSlots(ResolutionAt(i).v, <<call.entry>> \o CapturesAt(i)))

-----------------------------------------------------------------------------
(* C1: exact-match precedence.                                             *)

\* C1: when a key without wildcard equals the entry and wildcard keys match
\* the entry too, resolve returns the resolution of the exact key's mapping
\* (the empty sequence for Excluded or no satisfied condition), whatever the
\* order of the keys and whatever the wildcard keys' mappings resolve to.
\* Stated for calls without assertMatch, which always return a sequence.
C1_ExactMatchPrecedence ==
  (/\ call.active
   /\ ~call.options.assertMatch
   /\ IsPathPatternMap(pkg.exports)
   /\ IsEntrySpecifier(call.entry)
   /\ ExactKeys # {}
   /\ MatchingWildcards # {})
  => \A i \in ExactKeys : call.out = Ok(PathsOf(ResolutionAt(i)))

-----------------------------------------------------------------------------
(* C2: specificity.                                                        *)

\* the length of a key's static prefix: the characters before its first "*",
\* all of the key when it has none
StaticPrefixLen(key) == IF HasStar(key) THEN FirstStar(key) - 1 ELSE Len(key)

\* the base length of a key: its first "*" included, all of the key when it
\* has none
BaseLen(key) == IF HasStar(key) THEN FirstStar(key) ELSE Len(key)

\* a call on a well-formed path-pattern map in which no exact key equals the
\* entry, no matching wildcard key is Excluded, and at least n keys are
\* candidates
WildcardCase(n) ==
  /\ call.active
  /\ IsPathPatternMap(pkg.exports)
  /\ IsEntrySpecifier(call.entry)
  /\ ExactKeys = {}
  /\ \A i \in MatchingWildcards : ResolutionAt(i).t = "ok"
  /\ Cardinality(Candidates) >= n

\* candidate i is ahead of every other candidate in the measure
Leads(i, Measure(_)) ==
  /\ i \in Candidates
  /\ \A j \in Candidates \ {i} : Measure(KeyAt(i)) > Measure(KeyAt(j))

\* C2 as stated: among several candidates the key with the longest static
\* (non-wildcard) prefix gives the result, whatever the declaration order.
C2_LongestStaticPrefixWins ==
  WildcardCase(2) =>
    \A i \in Candidates : Leads(i, StaticPrefixLen) => call.out = SubstitutedAt(i)

\* './foo/' -> './1/', './foo/bar/' -> './2/', './' -> './3/'
TrailingSlashExamples ==
  (call.active /\ pkg.exports = ReadmeTrailingSlash) =>
    /\ call.entry = <<".", "/", "f", "o", "o", "/", "b", "a", "r", "/", "m", "a", "i", "n", ".", "j", "s">> =>
         call.out = Ok(<<<<".", "/", "2", "/", "m", "a", "i", "n", ".", "j", "s">>>>)
    /\ call.entry = <<".", "/", "f", "o", "o">> =>
         call.out = Ok(<<<<".", "/", "3", "/", "f", "o", "o">>>>)

\* C2, amended: among several candidates the key with the greatest base
\* length (the key's length when it has no "*", the position of its first "*"
\* otherwise) gives the result, whatever the declaration order.
C2_GreatestBaseLengthWins ==
  /\ WildcardCase(2) =>
       \A i \in Candidates : Leads(i, BaseLen) => call.out = SubstitutedAt(i)
  /\ TrailingSlashExamples

\* two candidates, and the one declared first gives the result
C2_Witness ==
  /\ WildcardCase(2)
  /\ \E i \in Candidates :
       /\ Leads(i, BaseLen)
       /\ \E j \in Candidates : i < j
       /\ call.out = SubstitutedAt(i)

-----------------------------------------------------------------------------
(* C3: wildcard slot substitution.                                         *)

\* the path with a trailing "/" rewritten to "/*" and then its k-th "*"
\* replaced by capture min(k, n) of the n captures
Substituted(path, captures) ==
  LET template == IF EndsWithSlash(path) THEN path \o <<"*">> ELSE path
      rank(i) == Cardinality({j \in 1..i : template[j] = "*"})
      piece(i) == IF template[i] = "*"
                    THEN captures[IF rank(i) < Len(captures) THEN rank(i)
                                  ELSE Len(captures)]
                  ELSE <<template[i]>>
  IN Flatten([i \in 1..Len(template) |-> piece(i)])

\* './*.*' -> './*/index.*' and './*.css' -> './*/*.css'
WildcardTokenExamples ==
  call.active =>
    /\ (/\ pkg.exports \in {ReadmeWildcardToken, ExampleTwoGlobsTwoSlots}
        /\ call.entry = <<".", "/", "f", "o", "o", ".", "c", "o", "f", "f", "e", "e">>)
       => call.out = Ok(<<<<".", "/", "f", "o", "o", "/", "i", "n", "d", "e", "x", ".", "c", "o", "f", "f", "e", "e">>>>)
    /\ (/\ pkg.exports \in {ReadmeWildcardToken, ExampleOneGlobTwoSlots}
        /\ call.entry = <<".", "/", "f", "o", "o", ".", "c", "s", "s">>)
       => call.out = Ok(<<<<".", "/", "f", "o", "o", "/", "f", "o", "o", ".", "c", "s", "s">>>>)

\* C3: every path of the winning wildcard key's resolution has a trailing
\* "/" rewritten to "/*" and then its k-th "*" replaced by capture min(k, n).
C3_SlotSubstitution ==
  /\ WildcardCase(1) =>
       \A i \in Candidates :
         Leads(i, BaseLen) =>
           /\ call.out.t = "ok"
           /\ Len(CapturesAt(i)) >= 1
           /\ Len(call.out.v) = Len(ResolutionAt(i).v)
           /\ \A j \in 1..Len(call.out.v) :
                call.out.v[j] = Substituted(ResolutionAt(i).v[j], CapturesAt(i))
  /\ WildcardTokenExamples

\* a template with more "*" tokens than the key has captures was substituted
C3_Witness ==
  /\ WildcardCase(1)
  /\ \E i \in Candidates :
       /\ Leads(i, BaseLen)
       /\ \E j \in 1..Len(ResolutionAt(i).v) :
            /\ Cardinality({c \in 1..Len(ResolutionAt(i).v[j]) :
                              ResolutionAt(i).v[j][c] = "*"}) > Len(CapturesAt(i))
            /\ call.out.v[j] = Substituted(ResolutionAt(i).v[j], CapturesAt(i))

-----------------------------------------------------------------------------
(* C4: conditional resolution.                                             *)

\* the resolutions of the members of a list or conditions object
MemberResolutions(mapping) ==
  [i \in 1..Len(mapping.items) |-> Resolution(mapping.items[i].v, ActiveConditions)]

\* the conditions objects of the descriptor: its objects, except a top-level
\* object whose first key is a path
ConditionObjects ==
  {m \in SubMappings(pkg.exports) :
     m.t = "object" /\ ~(m = pkg.exports /\ FirstKeyIsPath(pkg.exports))}

\* the export declaration is a conditions object and the call resolves "."
RootConditionsCase ==
  /\ call.active
  /\ call.entry = <<".">>
  /\ pkg.exports.t = "object"
  /\ Len(pkg.exports.items) > 0
  /\ ~FirstKeyIsPath(pkg.exports)

\* {'import': {'production': './foo.js'}, 'default': './foo.cjs'} and
\* {'import': null, 'default': './bar.cjs'}
ConditionExamples ==
  call.active =>
    /\ (/\ pkg.exports = ReadmeNestedMismatch
        /\ call.entry = <<".">>
        /\ PRODUCTION \notin ActiveConditions)
       => call.out = Ok(<<<<".", "/", "f", "o", "o", ".", "c", "j", "s">>>>)
    /\ (/\ pkg.exports = ReadmeNullMapping
        /\ call.entry = <<".", "/", "b", "a", "r">>
        /\ ~call.options.assertMatch)
       => call.out = IF IMPORT \in ActiveConditions THEN Ok(<<>>)
                     ELSE Ok(<<<<".", "/", "b", "a", "r", ".", "c", "j", "s">>>>)

\* C4: resolveMapping on a conditions object returns the outcome of the first
\* entry, in declaration order, whose key is active and whose value resolves
\* to Excluded or to a non-empty sequence; it returns empty, not Excluded,
\* when there is no such entry.
C4_ConditionalFirstMatch ==
  call.active =>
    /\ \A m \in ConditionObjects :
         LET r == resolveMapping(m, ActiveConditions, FALSE)
         IN /\ NoPathKeyInConditions(m) => r.t # "throw"
            /\ r.t # "throw" =>
                 r = ConditionalRule(ObjectKeys(m), MemberResolutions(m), ActiveConditions)
    /\ (RootConditionsCase /\ call.out.t = "ok") =>
         call.out.v = PathsOf(ConditionalRule(ObjectKeys(pkg.exports),
                                              MemberResolutions(pkg.exports),
                                              ActiveConditions))
    /\ ConditionExamples

\* a call returned the second entry's path after the first, active entry
\* resolved empty
C4_Witness ==
  /\ RootConditionsCase
  /\ Len(pkg.exports.items) = 2
  /\ KeyAt(1) \in ActiveConditions
  /\ ResolutionAt(1) = Ok(<<>>)
  /\ KeyAt(2) \in ActiveConditions
  /\ ResolutionAt(2).t = "ok" /\ ResolutionAt(2).v # <<>>
  /\ call.out = ResolutionAt(2)

-----------------------------------------------------------------------------
(* C5: pattern-level exclusion.                                            *)

\* './*': './*.js', './internal/*': null
ExclusionExamples ==
  (call.active /\ pkg.exports = ExamplePatternExclusion /\ ~call.options.assertMatch) =>
    /\ call.entry = <<".", "/", "i", "n", "t", "e", "r", "n", "a", "l", "/", "f", "o", "o">> => call.out = Ok(<<>>)
    /\ call.entry = <<".", "/", "f", "o", "o">> =>
         call.out = Ok(<<<<".", "/", "f", "o", "o", ".", "j", "s">>>>)

\* no exact key equals the entry and a matching wildcard key is Excluded
ExclusionCase ==
  /\ call.active
  /\ ~call.options.assertMatch
  /\ IsPathPatternMap(pkg.exports)
  /\ IsEntrySpecifier(call.entry)
  /\ ExactKeys = {}
  /\ \E i \in MatchingWildcards : ResolutionAt(i).t = "null"

\* C5: when no exact key equals the entry and a matching wildcard key's
\* mapping resolves to Excluded, a call without assertMatch returns the empty
\* sequence, whatever the other matching wildcard keys resolve to.
C5_PatternLevelExclusion ==
  /\ ExclusionCase => call.out = Ok(<<>>)
  /\ ExclusionExamples

\* the call returned empty although a candidate was declared before the
\* Excluded key
C5_Witness ==
  /\ ExclusionCase
  /\ \E i \in MatchingWildcards, j \in Candidates :
       j < i /\ ResolutionAt(i).t = "null"
  /\ call.out = Ok(<<>>)

-----------------------------------------------------------------------------
(* C6: fallback arrays.                                                    *)

Lists == {m \in SubMappings(pkg.exports) : m.t = "array"}

\* './*': ['./*.js', './*.cjs']
ArrayExamples ==
  (call.active /\ pkg.exports = ReadmeArrayMapping /\ call.entry = <<".", "/", "f", "o", "o">>) =>
    call.out = Ok(<<<<".", "/", "f", "o", "o", ".", "j", "s">>, <<".", "/", "f", "o", "o", ".", "c", "j", "s">>>>)

\* the export declaration is a list and the call resolves "."
RootListCase ==
  /\ call.active
  /\ call.entry = <<".">>
  /\ pkg.exports.t = "array"

\* C6: a list resolves to the concatenation, in item order, of the
\* resolutions of all its items, and to Excluded when any item does.
C6_ListConcatenation ==
  call.active =>
    /\ \A m \in Lists :
         LET r == resolveMapping(m, ActiveConditions, FALSE)
         IN /\ NoPathKeyInConditions(m) => r.t # "throw"
            /\ r.t # "throw" => r = ListRule(MemberResolutions(m))
    /\ (RootListCase /\ call.out.t = "ok") =>
         call.out.v = PathsOf(ListRule(MemberResolutions(pkg.exports)))
    /\ ArrayExamples

\* a call returned the paths of two items, in item order
C6_Witness ==
  /\ RootListCase
  /\ Len(pkg.exports.items) = 2
  /\ pkg.exports.items[1].v.t = "string"
  /\ pkg.exports.items[2].v.t = "string"
  /\ pkg.exports.items[1].v # pkg.exports.items[2].v
  /\ call.out = Ok(<<pkg.exports.items[1].v.s, pkg.exports.items[2].v.s>>)

-----------------------------------------------------------------------------
(* C7: invalid entries.                                                    *)

InvalidEntryCase == call.active /\ ~IsEntrySpecifier(call.entry)

\* C7 as stated: an entry that is neither "." nor starts with "./" gives the
\* empty sequence and no exception, for every descriptor and all options.
C7_InvalidEntryNeverRaises ==
  InvalidEntryCase => call.out = Ok(<<>>)

\* C7, amended: such an entry gives the empty sequence and no exception for
\* every descriptor when assertMatch is unset or false, and MissingExport
\* when assertMatch is true; the export map is not inspected either way.
C7_InvalidEntryByMode ==
  InvalidEntryCase =>
    /\ call.out = IF call.options.assertMatch THEN Throw("MissingExport") ELSE Ok(<<>>)
    /\ call.compiled = {}
    /\ CacheGet = call.before

\* an invalid entry gave the empty sequence on an export map with a key that
\* is no path
C7_Witness ==
  /\ InvalidEntryCase
  /\ ~call.options.assertMatch
  /\ FirstKeyIsPath(pkg.exports)
  /\ \E i \in 1..Len(pkg.exports.items) : ~StartsWithDot(KeyAt(i))
  /\ call.out = Ok(<<>>)

-----------------------------------------------------------------------------
(* C8: InvalidPathPattern.                                                 *)

\* C8: on an export map whose first key begins with "." and that holds a key
\* that does not, every call with a valid entry raises InvalidPathPattern.
C8_InvalidPathPatternAlwaysRaises ==
  (/\ call.active
   /\ IsEntrySpecifier(call.entry)
   /\ FirstKeyIsPath(pkg.exports)
   /\ \E i \in 1..Len(pkg.exports.items) : ~StartsWithDot(KeyAt(i)))
  => call.out = Throw("InvalidPathPattern")

-----------------------------------------------------------------------------
(* C9: InvalidCondition.                                                   *)

\* the mapping of the first key is resolved: the key equals the entry
FirstKeyCase ==
  /\ call.active
  /\ FirstKeyIsPath(pkg.exports)
  /\ IsEntrySpecifier(call.entry)
  /\ ~IsWildcardKey(KeyAt(1))
  /\ KeyAt(1) = call.entry

HasPathKey(mapping) ==
  /\ mapping.t = "object"
  /\ \E i \in 1..Len(mapping.items) : StartsWithDot(mapping.items[i].k)

\* C9: a call that applies the Mapping Resolver to a conditions object with a
\* key that begins with "." raises InvalidCondition.
C9_InvalidConditionAlwaysRaises ==
  /\ (RootConditionsCase /\ HasPathKey(pkg.exports))
       => call.out = Throw("InvalidCondition")
  /\ (FirstKeyCase /\ HasPathKey(pkg.exports.items[1].v))
       => call.out = Throw("InvalidCondition")

-----------------------------------------------------------------------------
(* C10: errors without assertMatch.                                        *)

\* C10: a call without assertMatch raises nothing but InvalidPathPattern and
\* InvalidCondition; for every other descriptor it returns a sequence.
C10_OnlySyntaxErrorsWithoutAssertMatch ==
  (call.active /\ ~call.options.assertMatch) =>
    \/ call.out.t = "ok"
    \/ call.out.t = "throw" /\ call.out.e \in {"InvalidPathPattern", "InvalidCondition"}

-----------------------------------------------------------------------------
(* C11: the errors of strict mode.                                         *)

\* the keys, exact or wildcard, that match the call's entry
MatchingKeys == ExactKeys \cup MatchingWildcards

\* a strict call with a valid entry on a well-formed path-pattern map
StrictCase ==
  /\ call.active
  /\ call.options.assertMatch
  /\ IsPathPatternMap(pkg.exports)
  /\ IsEntrySpecifier(call.entry)

\* a strict call that resolves "." on a well-formed conditions object
StrictRootConditionsCase ==
  /\ RootConditionsCase
  /\ call.options.assertMatch
  /\ NoPathKeyInConditions(pkg.exports)

\* C11 as stated: a strict call on a well-formed export map raises
\* MissingExport when no key matches the entry, raises NoMatchingCondition
\* when keys (exact or wildcard) match the entry and no condition of their
\* mappings is satisfied, and never returns the empty sequence.
C11_StrictErrorKinds ==
  /\ (StrictCase /\ MatchingKeys = {}) => call.out = Throw("MissingExport")
  /\ (StrictCase /\ MatchingKeys # {} /\ \A i \in MatchingKeys : ResolutionAt(i) = Ok(<<>>))
       => call.out = Throw("NoMatchingCondition")
  /\ (StrictRootConditionsCase /\ Resolution(pkg.exports, ActiveConditions) = Ok(<<>>))
       => call.out = Throw("NoMatchingCondition")
  /\ (call.active /\ call.options.assertMatch) => call.out # Ok(<<>>)

\* C11, amended: a strict call never returns the empty sequence.  On a
\* well-formed path-pattern map it raises MissingExport when no key matches
\* the entry, and also when no exact key equals the entry and no matching
\* wildcard key resolves to a non-empty sequence; it raises
\* NoMatchingCondition only when an exact key equals the entry, and does so
\* when that key is the only matching key and its mapping is a conditions
\* object with no satisfied condition.  A conditions object declared for the
\* root raises NoMatchingCondition for "." when no condition is satisfied and
\* MissingExport for every other entry; a list that resolves to the empty
\* sequence, declared for the root, raises MissingExport for ".".
C11_StrictErrorKindsByMatch ==
  /\ (StrictCase /\ MatchingKeys = {}) => call.out = Throw("MissingExport")
  /\ (StrictCase /\ ExactKeys = {} /\ Candidates = {})
       => call.out = Throw("MissingExport")
  /\ (StrictCase /\ call.out = Throw("NoMatchingCondition")) => ExactKeys # {}
  /\ (StrictCase /\ MatchingWildcards = {}) =>
       \A i \in ExactKeys :
         (pkg.exports.items[i].v.t = "object" /\ ResolutionAt(i) = Ok(<<>>))
           => call.out = Throw("NoMatchingCondition")
  /\ (StrictRootConditionsCase /\ Resolution(pkg.exports, ActiveConditions) = Ok(<<>>))
       => call.out = Throw("NoMatchingCondition")
  /\ (StrictRootConditionsCase /\ Resolution(pkg.exports, ActiveConditions).t = "null")
       => call.out = Throw("MissingExport")
  /\ (/\ call.active
      /\ call.options.assertMatch
      /\ IsEntrySpecifier(call.entry)
      /\ call.entry # <<".">>
      /\ pkg.exports.t = "object"
      /\ Len(pkg.exports.items) > 0
      /\ ~FirstKeyIsPath(pkg.exports))
       => call.out = Throw("MissingExport")
  /\ (/\ RootListCase
      /\ call.options.assertMatch
      /\ NoPathKeyInConditions(pkg.exports)
      /\ Resolution(pkg.exports, ActiveConditions) = Ok(<<>>))
       => call.out = Throw("MissingExport")
  /\ (call.active /\ call.options.assertMatch) => call.out # Ok(<<>>)

\* a strict call raised MissingExport although a wildcard key matched the
\* entry: no condition of the key's mapping was satisfied
C11_Witness ==
  /\ StrictCase
  /\ ExactKeys = {}
  /\ \E i \in MatchingWildcards :
       pkg.exports.items[i].v.t = "object" /\ ResolutionAt(i) = Ok(<<>>)
  /\ Candidates = {}
  /\ call.out = Throw("MissingExport")

-----------------------------------------------------------------------------
(* C12: the same call twice.                                               *)

\* the caller made the same call twice in a row and holds both results
RepeatedCase == call.active /\ call.repeated

\* C12: the second of two consecutive calls with the same package, entry and
\* options returns or raises what the first did and compiles no pattern:
\* every matcher it uses was in the cache when it began.
C12_SecondCallHitsCache ==
  RepeatedCase =>
    /\ call.out = call.previous
    /\ call.compiled = {}

-----------------------------------------------------------------------------
(* C13: the effective condition set.                                       *)

\* the conditions the caller names, custom or inline
PassedToCall == SetOf(call.options.conditions) \cup SetOf(call.inlineConditions)

\* a call that got as far as building its condition set
ConditionsCase == call.active /\ IsEntrySpecifier(call.entry)

\* C13 as stated: whatever the custom and inline conditions, the set of a call
\* contains 'default', 'production' when isProduction and 'development'
\* otherwise, and 'require' when isRequire and 'import' otherwise.
C13_EffectiveConditionSet ==
  ConditionsCase =>
    /\ DEFAULT \in call.conditions
    /\ (IF call.options.isProduction THEN PRODUCTION ELSE DEVELOPMENT) \in call.conditions
    /\ (IF call.options.isRequire THEN REQUIRE ELSE IMPORT) \in call.conditions

\* C13, amended: the set contains 'default', 'production' when isProduction
\* and 'development' otherwise, 'require' when isRequire and 'import' is not
\* among the custom or inline conditions, and 'import' otherwise; an 'import'
\* the caller names keeps 'require' from being added.
C13_ExplicitImportPreventsRequire ==
  ConditionsCase =>
    /\ DEFAULT \in call.conditions
    /\ (IF call.options.isProduction THEN PRODUCTION ELSE DEVELOPMENT) \in call.conditions
    /\ (IF call.options.isRequire /\ IMPORT \notin PassedToCall
          THEN REQUIRE ELSE IMPORT) \in call.conditions
    /\ (call.options.isRequire /\ IMPORT \in PassedToCall /\ REQUIRE \notin PassedToCall)
         => REQUIRE \notin call.conditions

\* a call with isRequire and an inline 'import' resolved without 'require'
C13_Witness ==
  /\ ConditionsCase
  /\ call.options.isRequire
  /\ IMPORT \in SetOf(call.inlineConditions)
  /\ IMPORT \in call.conditions
  /\ REQUIRE \notin call.conditions

-----------------------------------------------------------------------------
(* C14: the trailing-slash shorthand.                                      *)

\* a string that ends in "/" rewritten to end in "/*"
ExpandTrailingSlash(str) == IF EndsWithSlash(str) THEN str \o <<"*">> ELSE str

\* the export map with every key in the "/*" form
WithKeysExpanded(exports) ==
  JObj([i \in 1..Len(exports.items) |->
          Prop(ExpandTrailingSlash(exports.items[i].k), exports.items[i].v)])

\* a mapping with every result template in the "/*" form
RECURSIVE WithTemplatesExpanded(_)
WithTemplatesExpanded(value) ==
  IF value.t = "string" THEN JStr(ExpandTrailingSlash(value.s))
  ELSE [value EXCEPT !.items =
          [i \in 1..Len(value.items) |->
             [k |-> value.items[i].k, v |-> WithTemplatesExpanded(value.items[i].v)]]]

\* the export map with the templates of its wildcard keys in the "/*" form
WithWildcardTemplatesExpanded(exports) ==
  JObj([i \in 1..Len(exports.items) |->
          Prop(exports.items[i].k,
               IF IsWildcardKey(exports.items[i].k)
                 THEN WithTemplatesExpanded(exports.items[i].v)
               ELSE exports.items[i].v)])

\* what the call gives on another export map, from an empty cache
OutcomeOn(exports) ==
  resolveExports([exports |-> exports], call.entry, call.options,
                 call.inlineConditions, <<>>).out

\* a call, with an entry the resolver accepts, on an export map with path
\* keys that stay distinct in the "/*" form
ShorthandCase ==
  /\ call.active
  /\ IsEntrySpecifier(call.entry)
  /\ FirstKeyIsPath(pkg.exports)
  /\ \A i, j \in 1..Len(pkg.exports.items) :
       i # j => ExpandTrailingSlash(KeyAt(i)) # ExpandTrailingSlash(KeyAt(j))

\* C14 as stated: replacing the "/" form of the keys, or of the result
\* templates, by the "/*" form never changes the result of a call.
C14_TrailingSlashEquivalence ==
  ShorthandCase =>
    /\ call.out = OutcomeOn(WithKeysExpanded(pkg.exports))
    /\ call.out = OutcomeOn(WithTemplatesExpanded(pkg.exports))

\* C14, amended: a key in the "/" form matches the entries the "/*" form
\* matches, with the same capture, and the result of a call does not change
\* when the keys are replaced and at most one wildcard key matches the entry,
\* nor when the result templates of wildcard keys are replaced.
C14_TrailingSlashSameMatchAndPaths ==
  ShorthandCase =>
    /\ \A i \in 1..Len(pkg.exports.items) :
         EndsWithSlash(KeyAt(i)) =>
           \A match \in {StringMatch(call.entry,
                                     parsePathPattern(KeyAt(i), pkg.exports).re)} :
             /\ match = StringMatch(call.entry,
                                    parsePathPattern(ExpandTrailingSlash(KeyAt(i)),
                                                     WithKeysExpanded(pkg.exports)).re)
             /\ KeyMatches(KeyAt(i), call.entry) <=> match # <<>>
    /\ \A expanded \in {WithKeysExpanded(pkg.exports)} :
         (expanded # pkg.exports /\ Cardinality(MatchingWildcards) <= 1)
           => call.out = OutcomeOn(expanded)
    /\ \A expanded \in {WithWildcardTemplatesExpanded(pkg.exports)} :
         expanded # pkg.exports => call.out = OutcomeOn(expanded)

\* './a/' -> './1/' was the only wildcard key to match './a/x' and the call
\* returned './1/x'
C14_Witness ==
  /\ ShorthandCase
  /\ call.entry = <<".", "/", "a", "/", "x">>
  /\ \E i \in 1..Len(pkg.exports.items) :
       /\ MatchingWildcards = {i}
       /\ KeyAt(i) = S_aSlash
       /\ pkg.exports.items[i].v = JStr(S_1Slash)
  /\ call.out = Ok(<<<<".", "/", "1", "/", "x">>>>)

-----------------------------------------------------------------------------
(* C15: declarations for the root entry only.                              *)

\* a declaration that is no path-pattern map: absent, a string, a list, or an
\* object whose first key does not begin with "."
RootOnlyDeclaration(exports) ==
  \/ exports.t \in {"undefined", "null", "string", "array"}
  \/ exports.t = "object" /\ Len(exports.items) > 0 /\ ~FirstKeyIsPath(exports)

\* a call on such a declaration, without assertMatch
RootOnlyCase ==
  /\ call.active
  /\ ~call.options.assertMatch
  /\ RootOnlyDeclaration(pkg.exports)

\* the call returns the resolution of the mapping for "." and the empty
\* sequence for every other entry
ReturnsForRootOnly(mapping) ==
  /\ (call.entry = <<".">> /\ NoPathKeyInConditions(mapping))
       => call.out = Ok(PathsOf(Resolution(mapping, call.conditions)))
  /\ call.entry # <<".">> => call.out = Ok(<<>>)

\* C15 as stated: a declaration that is no path-pattern map is the mapping of
\* "." only, an absent one counting as null: a call without assertMatch
\* returns its resolution for "." and the empty sequence for other entries.
C15_RootOnlyDeclarations ==
  RootOnlyCase =>
    ReturnsForRootOnly(IF pkg.exports.t = "undefined" THEN JNull ELSE pkg.exports)

\* C15, amended: the same, with the empty string counting as null too.
C15_RootOnlyEmptyStringAsNull ==
  RootOnlyCase =>
    ReturnsForRootOnly(IF pkg.exports.t = "undefined" \/ pkg.exports = JStr(<<>>)
                         THEN JNull ELSE pkg.exports)

\* a call without assertMatch returned the paths a conditions object declared
\* for the root resolves to
C15_Witness ==
  /\ RootOnlyCase
  /\ RootConditionsCase
  /\ NoPathKeyInConditions(pkg.exports)
  /\ Resolution(pkg.exports, call.conditions).t = "ok"
  /\ Resolution(pkg.exports, call.conditions).v # <<>>
  /\ call.out = Resolution(pkg.exports, call.conditions)

-----------------------------------------------------------------------------
(* C16: ties in specificity.                                               *)

\* a call with two candidates
TwoCandidates == WildcardCase(2) /\ Cardinality(Candidates) = 2

\* the longer of two keys, the one declared first when they are as long
LongerOrFirst(i, j) == IF Len(KeyAt(j)) > Len(KeyAt(i)) THEN j ELSE i

\* the one of two keys that has no "*"
WithoutStar(i, j) == IF HasStar(KeyAt(i)) THEN j ELSE i

\* the one of two keys that has a "*"
WithStar(i, j) == IF HasStar(KeyAt(i)) THEN i ELSE j

\* C16 as stated: of two candidates with the same static prefix length the
\* key with no "*" (a trailing-slash key) gives the result; when both or
\* neither have one, the longer key does, and the first declared when they
\* are as long.
C16_TieBreaks ==
  TwoCandidates =>
    \A i, j \in Candidates :
      (/\ i < j
       /\ StaticPrefixLen(KeyAt(i)) = StaticPrefixLen(KeyAt(j)))
      => call.out = SubstitutedAt(IF HasStar(KeyAt(i)) # HasStar(KeyAt(j))
                                    THEN WithoutStar(i, j)
                                  ELSE LongerOrFirst(i, j))

\* C16, amended: of two candidates with the same static prefix length, or
\* with the same base length, the key with a "*" gives the result when the
\* other has none; when both have one, the longer key does, and the first
\* declared when they are as long.
C16_TieBreaksStarFirst ==
  TwoCandidates =>
    \A i, j \in Candidates :
      (/\ i < j
       /\ \/ StaticPrefixLen(KeyAt(i)) = StaticPrefixLen(KeyAt(j))
          \/ BaseLen(KeyAt(i)) = BaseLen(KeyAt(j)))
      => call.out = SubstitutedAt(IF HasStar(KeyAt(i)) # HasStar(KeyAt(j))
                                    THEN WithStar(i, j)
                                  ELSE LongerOrFirst(i, j))

\* two candidates with a "*", the same base length and the same length: the
\* one declared first gave the result, and the other would have given another
C16_Witness ==
  \E i, j \in 1..Len(pkg.exports.items) :
    /\ TwoCandidates
    /\ Candidates = {i, j}
    /\ i < j
    /\ HasStar(KeyAt(i)) /\ HasStar(KeyAt(j))
    /\ BaseLen(KeyAt(i)) = BaseLen(KeyAt(j))
    /\ Len(KeyAt(i)) = Len(KeyAt(j))
    /\ call.out = SubstitutedAt(i)
    /\ call.out # SubstitutedAt(j)

-----------------------------------------------------------------------------
(* C17: cache transparency.                                                 *)

\* what each call yields with an empty cache and no other caller
AloneOutcomes ==
  [e \in RaceExports, entry \in RaceEntries, options \in RaceOptionSets |->
     resolveExports([exports |-> e], entry, options, <<>>, <<>>).out]

\* what the call of caller c yields with an empty cache and no other caller
AloneOutcome(c) == AloneOutcomes[pkg.exports, callers[c].entry, callers[c].options]

\* the compilation of every declared key of each map
Compilations ==
  [e \in RaceExports |->
     [i \in 1..Len(e.items) |-> parsePathPattern(e.items[i].k, e)]]

\* every matcher an array holds at position i is the compilation of the i-th
\* declared key of the map, and no array is longer than the list of keys
ArrayFollowsKeys(array) ==
  /\ Len(array) <= Len(pkg.exports.items)
  /\ \A i \in 1..Len(array) :
       array[i] # Undefined => array[i] = Compilations[pkg.exports][i]

\* a call that ran while another caller's array replaced its own in the
\* cache: the first writes of the two callers overlapped
OverlappedCase(c) ==
  /\ callers[c].pc = "done"
  /\ callers[c].matchers \notin {NoArray, sharedArray}

\* C17: on an unmutated export map, whatever calls came before (calls that
\* returned early on an exact match or raised included) and however the
\* statements of calls side by side interleave, every call yields what it
\* yields alone with an empty cache, and the matcher at position i of the
\* cached array, and of every array a caller holds, is the compilation of
\* the map's i-th declared key.
C17_CacheTransparency ==
  /\ \A c \in DOMAIN callers :
       callers[c].pc = "done" => callers[c].out = AloneOutcome(c)
  /\ \A a \in DOMAIN arrays : ArrayFollowsKeys(arrays[a])

\* a caller whose array was replaced in the cache by the other caller's got
\* a wildcard match from a scan of all keys, and the cached array holds
\* matchers that an earlier or concurrent call compiled
C17_Witness ==
  \E c \in DOMAIN callers :
    /\ OverlappedCase(c)
    /\ callers[c].out = AloneOutcome(c)
    /\ callers[c].out.t = "ok"
    /\ callers[c].out.v # <<>>
    /\ arrays[callers[c].matchers] # <<>>
    /\ arrays[sharedArray] # <<>>
    /\ ArrayFollowsKeys(arrays[sharedArray])

====
